---- MODULE Spec2Model ----
(***************************************************************************)
(* Model of src-tauri/src/proxy/mappers/claude/utils.rs:                   *)
(*   get_context_limit_for_model  and  to_claude_usage.                    *)
(*                                                                         *)
(* u32 values are arbitrary-precision naturals (little-endian sequences of *)
(* 15-bit limbs) because a u32 does not fit TLC's 32-bit integers.  f64    *)
(* values are IEEE-754 binary64 numbers, kept as a 53-bit significand and  *)
(* a binary exponent; every f64 operation rounds to nearest, ties to even, *)
(* as the hardware does.  Only non-negative values occur in the code.      *)
(* Intermediate values are passed as operator arguments.                   *)
(***************************************************************************)
EXTENDS Integers, Sequences, FiniteSets, TLC

\* ------------------------------------------------------------------------
\* Arbitrary-precision naturals
\* ------------------------------------------------------------------------
LimbBits == 15

RECURSIVE Pow2(_)
Pow2(n) == IF n = 0 THEN 1 ELSE 2 * Pow2(n - 1)

Base == Pow2(LimbBits)

Tl(s) == IF s = <<>> THEN <<>> ELSE Tail(s)

Hd(s) == IF s = <<>> THEN 0 ELSE Head(s)

RECURSIVE BNorm(_)
BNorm(a) ==
    IF a = <<>> THEN <<>>
    ELSE IF a[Len(a)] = 0 THEN BNorm(SubSeq(a, 1, Len(a) - 1))
    ELSE a

RECURSIVE N(_)
N(i) == IF i = 0 THEN <<>> ELSE <<i % Base>> \o N(i \div Base)

RECURSIVE AddC(_, _, _)
AddC(a, b, c) ==
    IF a = <<>> /\ b = <<>>
    THEN (IF c = 0 THEN <<>> ELSE <<c>>)
    ELSE <<(Hd(a) + Hd(b) + c) % Base>>
            \o AddC(Tl(a), Tl(b), (Hd(a) + Hd(b) + c) \div Base)

BAdd(a, b) == AddC(a, b, 0)

RECURSIVE SubC(_, _, _)
SubC(a, b, c) ==
    IF a = <<>> THEN <<>>
    ELSE IF Hd(a) - Hd(b) - c < 0
         THEN <<Hd(a) - Hd(b) - c + Base>> \o SubC(Tl(a), Tl(b), 1)
         ELSE <<Hd(a) - Hd(b) - c>> \o SubC(Tl(a), Tl(b), 0)

\* a - b for a >= b
BSub(a, b) == BNorm(SubC(a, b, 0))

RECURSIVE CmpFrom(_, _, _)
CmpFrom(a, b, i) ==
    IF i = 0 THEN 0
    ELSE IF a[i] > b[i] THEN 1
    ELSE IF a[i] < b[i] THEN -1
    ELSE CmpFrom(a, b, i - 1)

\* -1, 0, 1 as a < b, a = b, a > b
BCmp(a, b) ==
    IF Len(a) > Len(b) THEN 1
    ELSE IF Len(a) < Len(b) THEN -1
    ELSE CmpFrom(a, b, Len(a))

BLe(a, b) == BCmp(a, b) <= 0

BLt(a, b) == BCmp(a, b) < 0

RECURSIVE MulC(_, _, _)
MulC(a, k, c) ==
    IF a = <<>> THEN (IF c = 0 THEN <<>> ELSE <<c>>)
    ELSE <<(Head(a) * k + c) % Base>> \o MulC(Tail(a), k, (Head(a) * k + c) \div Base)

\* a * k for 0 <= k < Base
BMulSmall(a, k) == IF k = 0 THEN <<>> ELSE MulC(a, k, 0)

ShiftLimbs(a, n) == IF a = <<>> THEN <<>> ELSE [i \in 1..n |-> 0] \o a

RECURSIVE BMul(_, _)
BMul(a, b) ==
    IF b = <<>> \/ a = <<>> THEN <<>>
    ELSE BAdd(BMulSmall(a, Head(b)), ShiftLimbs(BMul(a, Tail(b)), 1))

\* a * 2^n
BShl(a, n) == ShiftLimbs(BMulSmall(a, Pow2(n % LimbBits)), n \div LimbBits)

RECURSIVE DivC(_, _, _, _)
DivC(a, k, i, r) ==
    IF i = 0 THEN <<>>
    ELSE DivC(a, k, i - 1, (r * Base + a[i]) % k) \o <<(r * Base + a[i]) \div k>>

\* floor(a / k) for 0 < k < Base
BDivSmall(a, k) == BNorm(DivC(a, k, Len(a), 0))

\* floor(a / 2^n)
BShr(a, n) ==
    IF n \div LimbBits >= Len(a) THEN <<>>
    ELSE BDivSmall(SubSeq(a, (n \div LimbBits) + 1, Len(a)), Pow2(n % LimbBits))

RECURSIVE IntBits(_)
IntBits(i) == IF i = 0 THEN 0 ELSE 1 + IntBits(i \div 2)

BBitLen(a) == IF a = <<>> THEN 0 ELSE (Len(a) - 1) * LimbBits + IntBits(a[Len(a)])

BOdd(a) == a # <<>> /\ a[1] % 2 = 1

\* the largest g in acc .. acc + 2^(bit+1) - 1 with d * g <= r
RECURSIVE Digit(_, _, _, _)
Digit(r, d, acc, bit) ==
    IF bit < 0 THEN acc
    ELSE IF BLe(BMulSmall(d, acc + Pow2(bit)), r)
         THEN Digit(r, d, acc + Pow2(bit), bit - 1)
         ELSE Digit(r, d, acc, bit - 1)

\* quotient limb g in front of the lower limbs and the remainder of rest
Prepend(rest, g) == <<rest[1] \o <<g>>, rest[2]>>

\* long division, k more quotient limbs: <<floor(r * Base^k / d), remainder>>
\* for r < d
RECURSIVE DivLimbs(_, _, _)
RECURSIVE DivStep(_, _, _, _)
DivLimbs(r, d, k) ==
    IF k = 0 THEN <<<<>>, r>>
    ELSE DivStep(ShiftLimbs(r, 1), d, k, Digit(ShiftLimbs(r, 1), d, 0, LimbBits - 1))

DivStep(r2, d, k, g) == Prepend(DivLimbs(BSub(r2, BMulSmall(d, g)), d, k - 1), g)

\* ------------------------------------------------------------------------
\* IEEE-754 binary64, non-negative values: m * 2^e with 2^52 <= m < 2^53,
\* zero (m empty) or +infinity
\* ------------------------------------------------------------------------
MantBits == 53

\* quotient limbs computed by a division: 60 bits, more than MantBits + 2
QuotLimbs == (MantBits + 2) \div LimbBits + 1

FZero == [inf |-> FALSE, m |-> <<>>, e |-> 0]

FInf == [inf |-> TRUE, m |-> <<>>, e |-> 0]

IsZero(x) == ~x.inf /\ x.m = <<>>

\* a rounded significand q * 2^e; rounding up may have carried into bit 54
Pack(q, e) ==
    IF BBitLen(q) > MantBits
    THEN [inf |-> FALSE, m |-> BShr(q, 1), e |-> e + 1]
    ELSE [inf |-> FALSE, m |-> q, e |-> e]

\* ties to even: cmp compares the dropped bits with one half
RoundQ(q, cmp, sticky) ==
    IF cmp > 0 \/ (cmp = 0 /\ (sticky \/ BOdd(q))) THEN BAdd(q, <<1>>) ELSE q

\* the low sh bits of M against 2^(sh-1)
CmpHalf(M, sh) == BCmp(BSub(M, BShl(BShr(M, sh), sh)), BShl(<<1>>, sh - 1))

\* round (M + sticky) * 2^E, M # 0, to nearest, ties to even
FRound(M, E, sticky) ==
    IF BBitLen(M) <= MantBits
    THEN [inf |-> FALSE, m |-> BShl(M, MantBits - BBitLen(M)),
          e |-> E - (MantBits - BBitLen(M))]
    ELSE Pack(RoundQ(BShr(M, BBitLen(M) - MantBits),
                     CmpHalf(M, BBitLen(M) - MantBits), sticky),
              E + (BBitLen(M) - MantBits))

\* `n as f64` for a u32 n (exact)
FromU32(n) == IF n = <<>> THEN FZero ELSE FRound(n, 0, FALSE)

FLe(a, b) ==
    IF b.inf THEN TRUE
    ELSE IF a.inf THEN FALSE
    ELSE IF IsZero(a) THEN TRUE
    ELSE IF IsZero(b) THEN FALSE
    ELSE IF a.e # b.e THEN a.e < b.e
    ELSE BLe(a.m, b.m)

FMin(a, b) == IF FLe(a, b) THEN a ELSE b

FMul(a, b) ==
    IF a.inf \/ b.inf THEN FInf
    ELSE IF IsZero(a) \/ IsZero(b) THEN FZero
    ELSE FRound(BMul(a.m, b.m), a.e + b.e, FALSE)

\* the quotient limbs qr[1] below the leading bit q0, sticky if a remainder is left
DivPack(qr, q0, e) == FRound(BNorm(qr[1] \o <<q0>>), e, qr[2] # <<>>)

\* a / b; 0/0 and inf/inf (NaN) do not occur: the code divides a positive
\* finite value, or a value by a positive finite one
FDiv(a, b) ==
    IF a.inf THEN FInf
    ELSE IF IsZero(b) THEN FInf
    ELSE IF IsZero(a) \/ b.inf THEN FZero
    ELSE IF BLe(b.m, a.m)
         THEN DivPack(DivLimbs(BSub(a.m, b.m), b.m, QuotLimbs), 1,
                      a.e - b.e - QuotLimbs * LimbBits)
         ELSE DivPack(DivLimbs(a.m, b.m, QuotLimbs), 0,
                      a.e - b.e - QuotLimbs * LimbBits)

\* hi + lo for hi.e >= lo.e
FAddOrd(hi, lo) ==
    IF hi.e - lo.e > MantBits + 3
    THEN FRound(BShl(hi.m, 2), hi.e - 2, TRUE)
    ELSE FRound(BAdd(BShl(hi.m, hi.e - lo.e), lo.m), lo.e, FALSE)

FAdd(a, b) ==
    IF a.inf \/ b.inf THEN FInf
    ELSE IF IsZero(a) THEN b
    ELSE IF IsZero(b) THEN a
    ELSE IF a.e >= b.e THEN FAddOrd(a, b) ELSE FAddOrd(b, a)

FromDiff(M, e) == IF M = <<>> THEN FZero ELSE FRound(M, e, FALSE)

\* a - b for a >= b (the code subtracts a breakpoint only from a larger ratio)
FSub(a, b) ==
    IF a.inf THEN FInf
    ELSE IF IsZero(b) THEN a
    ELSE IF a.e - b.e > MantBits + 3
         THEN FRound(BSub(BShl(a.m, 2), <<1>>), a.e - 2, TRUE)
         ELSE FromDiff(BSub(BShl(a.m, a.e - b.e), b.m), b.e)

U32_MAX == BSub(BShl(<<1>>, 32), <<1>>)

Saturate(t) == IF BLt(U32_MAX, t) THEN U32_MAX ELSE t

\* `x as u32`: truncation toward zero, saturating at u32::MAX
AsU32(x) ==
    IF x.inf THEN U32_MAX
    ELSE IF IsZero(x) THEN <<>>
    ELSE IF x.e >= 0 THEN U32_MAX
    ELSE Saturate(BShr(x.m, 0 - x.e))

\* u32::saturating_sub
SaturatingSub(a, b) == IF BLe(b, a) THEN BSub(a, b) ELSE <<>>

\* a decimal literal num/den of the source: the nearest binary64 value
Dec(num, den) == FDiv(FromU32(N(num)), FromU32(N(den)))

\* ------------------------------------------------------------------------
\* utils.rs
\* ------------------------------------------------------------------------
\* Option<T>: None is the empty sequence, Some(v) the one-element sequence
None == <<>>

Some(v) == <<v>>

UnwrapOr(o, d) == IF o = None THEN d ELSE o[1]

RECURSIVE Contains(_, _)
\* str::contains: pat occurs in s as a contiguous substring
Contains(s, pat) ==
    IF Len(s) < Len(pat) THEN FALSE
    ELSE IF SubSeq(s, 1, Len(pat)) = pat THEN TRUE
    ELSE Contains(Tail(s), pat)

PRO == <<"p", "r", "o">>

FLASH == <<"f", "l", "a", "s", "h">>

LIMIT_PRO == N(2097152)

LIMIT_FLASH == N(1048576)

LIMIT_DEFAULT == N(1048576)

\* faulty variant: "flash" tested before "pro"
get_context_limit_flash_first(m) ==
    IF Contains(m, FLASH) THEN LIMIT_FLASH
    ELSE IF Contains(m, PRO) THEN LIMIT_PRO
    ELSE LIMIT_DEFAULT

\* faulty variant: the Pro limit loses its last three digits
get_context_limit_short_pro(m) ==
    IF Contains(m, PRO) THEN N(2097)
    ELSE IF Contains(m, FLASH) THEN LIMIT_FLASH
    ELSE LIMIT_DEFAULT

get_context_limit_for_model(m) ==
    IF Contains(m, PRO) THEN LIMIT_PRO
    ELSE IF Contains(m, FLASH) THEN LIMIT_FLASH
    ELSE LIMIT_DEFAULT

SCALING_THRESHOLD == N(30000)

TARGET_MAX == FromU32(N(195000))

c0_5 == Dec(5, 10)

c0_6 == Dec(6, 10)

c0_2 == Dec(2, 10)

c0_3 == Dec(3, 10)

c0_7 == Dec(7, 10)

c0_15 == Dec(15, 100)

c0_85 == Dec(85, 100)

c0_27 == Dec(27, 100)

c0_97 == Dec(97, 100)

\* (display_ratio * TARGET_MAX) as u32
Display(display_ratio) == AsU32(FMul(display_ratio, TARGET_MAX))

\* progress = (ratio - start) / width
Progress(ratio, start, width) == FDiv(FSub(ratio, start), width)

\* faulty variant: stage 1 compresses by 0.5
Stage1_Half(ratio) == Display(FMul(ratio, c0_5))

\* lines 43-47
Stage1(ratio) == Display(FMul(ratio, c0_6))

\* faulty variant: stage 2 without its 0.3 base
Stage2_NoBase(ratio) == Display(FMul(Progress(ratio, c0_5, c0_2), c0_2))

\* lines 48-53
Stage2(ratio) == Display(FAdd(c0_3, FMul(Progress(ratio, c0_5, c0_2), c0_2)))

\* lines 54-59
Stage3(ratio) == Display(FAdd(c0_5, FMul(Progress(ratio, c0_7, c0_15), c0_2)))

\* faulty variant: stage 4 without the clamp at 0.97
Stage4_NoClamp(ratio) ==
    Display(FAdd(c0_7, FMul(Progress(ratio, c0_85, c0_15), c0_27)))

\* lines 60-67
Stage4(ratio) ==
    Display(FMin(FAdd(c0_7, FMul(Progress(ratio, c0_85, c0_15), c0_27)), c0_97))

\* lines 43-67: the stage of a ratio
Staged(ratio) ==
    IF FLe(ratio, c0_5) THEN Stage1(ratio)
    ELSE IF FLe(ratio, c0_7) THEN Stage2(ratio)
    ELSE IF FLe(ratio, c0_85) THEN Stage3(ratio)
    ELSE Stage4(ratio)

\* faulty variant: the threshold test is >= instead of >
ScaledTotal_Ge(total_raw, scaling_enabled, context_limit) ==
    IF scaling_enabled /\ BLe(SCALING_THRESHOLD, total_raw)
    THEN Staged(FDiv(FromU32(total_raw), FromU32(context_limit)))
    ELSE total_raw

\* the local scaled_total of to_claude_usage
ScaledTotal(total_raw, scaling_enabled, context_limit) ==
    IF scaling_enabled /\ BLt(SCALING_THRESHOLD, total_raw)
    THEN Staged(FDiv(FromU32(total_raw), FromU32(context_limit)))
    ELSE total_raw

\* line 87
Reported(scaled_total, sc_cache) ==
    <<SaturatingSub(scaled_total, sc_cache), Some(sc_cache)>>

\* faulty variant: the cache field is guarded by cached_tokens > 0
Redistribute_CachedGuard(scaled_total, total_raw, cached_tokens) ==
    IF cached_tokens # <<>>
    THEN Reported(scaled_total,
                  AsU32(FMul(FromU32(scaled_total),
                             FDiv(FromU32(cached_tokens), FromU32(total_raw)))))
    ELSE <<scaled_total, None>>

\* faulty variant: the cache ratio is taken over the scaled total
Redistribute_ScaledDenominator(scaled_total, total_raw, cached_tokens) ==
    IF total_raw # <<>>
    THEN Reported(scaled_total,
                  AsU32(FMul(FromU32(scaled_total),
                             FDiv(FromU32(cached_tokens), FromU32(scaled_total)))))
    ELSE <<scaled_total, None>>

\* the pair (reported_input, reported_cache) of to_claude_usage:
\* cache_ratio = cached_tokens / total_raw, sc_cache = scaled_total * cache_ratio
Redistribute(scaled_total, total_raw, cached_tokens) ==
    IF total_raw # <<>>
    THEN Reported(scaled_total,
                  AsU32(FMul(FromU32(scaled_total),
                             FDiv(FromU32(cached_tokens), FromU32(total_raw)))))
    ELSE <<scaled_total, None>>

\* lines 92-98
Assemble(usage_metadata, reported) ==
    [input_tokens                |-> reported[1],
     output_tokens               |-> UnwrapOr(usage_metadata.candidates_token_count, <<>>),
     cache_read_input_tokens     |-> reported[2],
     cache_creation_input_tokens |-> Some(<<>>),
     server_tool_use             |-> None]

\* lines 22-23, 33
PromptTokens(usage_metadata) == UnwrapOr(usage_metadata.prompt_token_count, <<>>)

CachedTokens(usage_metadata) == UnwrapOr(usage_metadata.cached_content_token_count, <<>>)

\* faulty variant: output_tokens is derived from total_token_count
to_claude_usage_from_total(usage_metadata, scaling_enabled, context_limit) ==
    [Assemble(usage_metadata,
              Redistribute(ScaledTotal(PromptTokens(usage_metadata), scaling_enabled, context_limit),
                           PromptTokens(usage_metadata), CachedTokens(usage_metadata)))
     EXCEPT !.output_tokens =
        SaturatingSub(UnwrapOr(usage_metadata.total_token_count, <<>>),
                      PromptTokens(usage_metadata))]

to_claude_usage(usage_metadata, scaling_enabled, context_limit) ==
    Assemble(usage_metadata,
             Redistribute(ScaledTotal(PromptTokens(usage_metadata), scaling_enabled, context_limit),
                          PromptTokens(usage_metadata), CachedTokens(usage_metadata)))

\* ------------------------------------------------------------------------
\* Inputs
\* ------------------------------------------------------------------------
\* raw prompt counts are sampled at k/GridN of the context limit, k = 0..GridN
GridN == 20

Grid(limit) == { BDivSmall(BMulSmall(limit, k), GridN) : k \in 0..GridN }

\* model identifiers are concatenations of at most MaxParts fragments
MaxParts == 3

Fragments ==
    { PRO, FLASH, <<"p">>, <<"r", "o">>, <<"f", "l">>, <<"a", "s", "h">>,
      <<"-">>, <<"g", "e", "m">> }

Extend(ids) == ids \cup { a \o f : a \in ids, f \in Fragments }

RECURSIVE Identifiers(_)
Identifiers(n) == IF n = 0 THEN { <<>> } ELSE Extend(Identifiers(n - 1))

\* identifiers used by callers of to_claude_usage
ModelSet == { <<"g", "e", "m">> \o <<"-">> \o PRO, <<"g", "e", "m">> \o <<"-">> \o FLASH }

\* limits passed directly, as the unit test passes 1_000_000
CallerLimits == { <<>>, N(1), N(40000), N(1000000), U32_MAX }

SpecialRaw ==
    { <<>>, N(1), N(100), N(30000), N(30001), N(500000), N(700000),
      N(850000), N(1000000), U32_MAX }

RawSet(limit) == SpecialRaw \cup Grid(limit)

Succ(n) == IF n = U32_MAX THEN n ELSE BAdd(n, <<1>>)

CachedSet(raw) ==
    { None, Some(BDivSmall(raw, 3)), Some(raw), Some(Succ(raw)), Some(U32_MAX) }

OutTotal ==
    { [c |-> None, t |-> None], [c |-> Some(N(50)), t |-> Some(N(150))] }

PromptSet(limit) == { None } \cup { Some(r) : r \in RawSet(limit) }

UsageMetadataFor(p) ==
    { [prompt_token_count         |-> p,
       candidates_token_count     |-> o.c,
       total_token_count          |-> o.t,
       cached_content_token_count |-> c] :
         o \in OutTotal, c \in CachedSet(UnwrapOr(p, <<>>)) }

UsageMetadataSet(limit) == UNION { UsageMetadataFor(p) : p \in PromptSet(limit) }

\* successive responses of one conversation: a coarser grid of prompt counts
PairGridN == 5

PairPromptSet(limit) ==
    { None } \cup { Some(r) : r \in SpecialRaw \cup { BDivSmall(BMulSmall(limit, k), PairGridN) : k \in 0..PairGridN } }

PairMetadataSet(limit) ==
    { [prompt_token_count         |-> p,
       candidates_token_count     |-> c,
       total_token_count          |-> Some(N(150)),
       cached_content_token_count |-> Some(BDivSmall(UnwrapOr(p, <<>>), 3))] :
         p \in PairPromptSet(limit), c \in { None, Some(N(50)) } }

TotalSet == { None, Some(N(150)), Some(U32_MAX) }

\* ------------------------------------------------------------------------
\* State
\* ------------------------------------------------------------------------
VARIABLES pc, model, context_limit, usage_metadata, scaling_enabled,
          scaled_total, usage, prev

vars == <<pc, model, context_limit, usage_metadata, scaling_enabled,
          scaled_total, usage, prev>>

NoUsageMetadata ==
    [prompt_token_count |-> None, candidates_token_count |-> None,
     total_token_count |-> None, cached_content_token_count |-> None]

Init ==
    /\ pc = "start"
    /\ model = None
    /\ context_limit = <<>>
    /\ usage_metadata = NoUsageMetadata
    /\ scaling_enabled = FALSE
    /\ scaled_total = None
    /\ usage = None
    /\ prev = None

\* the caller resolves the limit of the active model
GetContextLimit(m) ==
    /\ pc = "start"
    /\ pc' = "limit"
    /\ model' = Some(m)
    /\ context_limit' = get_context_limit_for_model(m)
    /\ UNCHANGED <<usage_metadata, scaling_enabled, scaled_total, usage, prev>>

\* the caller passes a limit of its own
SupplyLimit(l) ==
    /\ pc = "start"
    /\ pc' = "limit"
    /\ context_limit' = l
    /\ UNCHANGED <<model, usage_metadata, scaling_enabled, scaled_total, usage, prev>>

\* one call of to_claude_usage; scaled_total records the local of that name
ToClaudeUsage(um, en) ==
    /\ pc = "limit"
    /\ pc' = "done"
    /\ usage_metadata' = um
    /\ scaling_enabled' = en
    /\ scaled_total' = Some(ScaledTotal(PromptTokens(um), en, context_limit))
    /\ usage' = Some(to_claude_usage(um, en, context_limit))
    /\ UNCHANGED <<model, context_limit, prev>>

\* a later response of the same conversation: the same limit and flag, new
\* usage metadata; prev keeps the earlier call
CallAgain(um) ==
    /\ pc = "done"
    /\ pc' = "again"
    /\ prev' = Some([usage_metadata |-> usage_metadata,
                     scaled_total   |-> scaled_total[1],
                     usage          |-> usage[1]])
    /\ usage_metadata' = um
    /\ scaled_total' = Some(ScaledTotal(PromptTokens(um), scaling_enabled, context_limit))
    /\ usage' = Some(to_claude_usage(um, scaling_enabled, context_limit))
    /\ UNCHANGED <<model, context_limit, scaling_enabled>>

\* the prompt grew (or stayed) and nothing else changed
AgainPrompt(p) ==
    /\ BLe(UnwrapOr(usage_metadata.prompt_token_count, <<>>), UnwrapOr(p, <<>>))
    /\ CallAgain([usage_metadata EXCEPT !.prompt_token_count = p])

\* only total_token_count changed
AgainTotal(t) ==
    /\ t # usage_metadata.total_token_count
    /\ CallAgain([usage_metadata EXCEPT !.total_token_count = t])

Next ==
    \/ \E m \in ModelSet : GetContextLimit(m)
    \/ \E l \in CallerLimits : SupplyLimit(l)
    \/ \E um \in UsageMetadataSet(context_limit), en \in BOOLEAN : ToClaudeUsage(um, en)

Spec == Init /\ [][Next]_vars

NextPair ==
    \/ \E m \in ModelSet : GetContextLimit(m)
    \/ \E l \in CallerLimits : SupplyLimit(l)
    \/ \E um \in PairMetadataSet(context_limit), en \in BOOLEAN : ToClaudeUsage(um, en)
    \/ \E p \in PairPromptSet(context_limit) : AgainPrompt(p)
    \/ \E t \in TotalSet : AgainTotal(t)

SpecPair == Init /\ [][NextPair]_vars

NextLimit == \E m \in Identifiers(MaxParts) : GetContextLimit(m)

SpecLimit == Init /\ [][NextLimit]_vars

\* ------------------------------------------------------------------------
\* Properties
\* ------------------------------------------------------------------------
Called == pc \in {"done", "again"}

Raw == UnwrapOr(usage_metadata.prompt_token_count, <<>>)

Cached == UnwrapOr(usage_metadata.cached_content_token_count, <<>>)

ST == scaled_total[1]

U == usage[1]

CacheRead == UnwrapOr(U.cache_read_input_tokens, <<>>)

ScalingApplied == Called /\ scaling_enabled /\ BLt(N(30000), Raw)

\* C1: input_tokens + cache_read_input_tokens (0 when absent) equals the
\* scaled total, for every input, cached counts above the prompt count included
C1_Conservation == Called => BAdd(U.input_tokens, CacheRead) = ST

\* C2 as stated: with scaling enabled and a fixed limit, the scaled total of
\* a later call with a prompt count at least as large is at least as large
C2_MonotoneEverywhere ==
    (pc = "again" /\ scaling_enabled) => BLe(prev[1].scaled_total, ST)

PrevRaw == UnwrapOr(prev[1].usage_metadata.prompt_token_count, <<>>)

SameSide == BLt(N(30000), PrevRaw) <=> BLt(N(30000), Raw)

\* C2 amended: with scaling enabled and a fixed limit, the scaled total is
\* non-decreasing in the prompt count among counts above 30,000, and among
\* counts of at most 30,000
C2_MonotoneSameSide ==
    (pc = "again" /\ scaling_enabled /\ SameSide) => BLe(prev[1].scaled_total, ST)

C2_Witness ==
    /\ pc = "again"
    /\ scaling_enabled
    /\ BLt(N(30000), PrevRaw)
    /\ BLt(PrevRaw, Raw)
    /\ BLt(prev[1].scaled_total, ST)
    /\ BLt(ST, N(189150))

\* C3: when scaling is applied with a limit of at least 1, the scaled total
\* is at most 189,150, and exactly 189,150 when raw >= context_limit
C3_UpperBound ==
    (ScalingApplied /\ context_limit # <<>>) =>
        /\ BLe(ST, N(189150))
        /\ BLe(context_limit, Raw) => ST = N(189150)

C3_Witness ==
    /\ ScalingApplied
    /\ context_limit # <<>>
    /\ BLt(context_limit, Raw)
    /\ ST = N(189150)

\* C4: with scaling disabled, or a prompt count of at most 30,000, the scaled
\* total is the raw prompt count
C4_Passthrough ==
    (Called /\ (~scaling_enabled \/ BLe(Raw, N(30000)))) => ST = Raw

C4_Witness ==
    /\ Called
    /\ scaling_enabled
    /\ Raw = N(30000)
    /\ ST = N(30000)
    /\ context_limit = N(1000000)

\* C5: cache_read_input_tokens is None exactly when the prompt count is 0 or
\* absent, and then input_tokens is 0
C5_Optionality ==
    Called =>
        /\ (U.cache_read_input_tokens = None) <=> (Raw = <<>>)
        /\ (Raw = <<>>) => U.input_tokens = <<>>

C5_Witness ==
    /\ Called
    /\ usage_metadata.prompt_token_count = None
    /\ Cached = U32_MAX
    /\ scaling_enabled
    /\ U.cache_read_input_tokens = None

\* "pro" occurs in the identifier, stated position by position
HasPro(id) ==
    \E i \in 1..(Len(id) - 2) : id[i] = "p" /\ id[i + 1] = "r" /\ id[i + 2] = "o"

HasFlash(id) ==
    \E i \in 1..(Len(id) - 4) :
        /\ id[i] = "f" /\ id[i + 1] = "l" /\ id[i + 2] = "a"
        /\ id[i + 3] = "s" /\ id[i + 4] = "h"

\* C6: an identifier containing "pro" resolves to 2,097,152, whatever else it
\* contains; every other identifier resolves to 1,048,576
C6_ResolveLimit ==
    (pc = "limit" /\ model # None) =>
        context_limit = IF HasPro(model[1]) THEN N(2097152) ELSE N(1048576)

C6_Witness ==
    /\ pc = "limit"
    /\ model # None
    /\ HasPro(model[1])
    /\ HasFlash(model[1])
    /\ context_limit = N(2097152)

\* the segment of raw / context_limit, by exact comparison of integers
Segment ==
    IF BLe(BMulSmall(Raw, 2), context_limit) THEN 1
    ELSE IF BLe(BMulSmall(Raw, 10), BMulSmall(context_limit, 7)) THEN 2
    ELSE IF BLe(BMulSmall(Raw, 100), BMulSmall(context_limit, 85)) THEN 3
    ELSE 4

\* the four-segment display map of the specification, in binary64
TableDisplay(ratio, seg) ==
    CASE seg = 1 -> FMul(ratio, Dec(6, 10))
      [] seg = 2 -> FAdd(Dec(3, 10), FMul(FDiv(FSub(ratio, Dec(5, 10)), Dec(2, 10)), Dec(2, 10)))
      [] seg = 3 -> FAdd(Dec(5, 10), FMul(FDiv(FSub(ratio, Dec(7, 10)), Dec(15, 100)), Dec(2, 10)))
      [] seg = 4 -> FMin(Dec(97, 100),
                         FAdd(Dec(7, 10), FMul(FDiv(FSub(ratio, Dec(85, 100)), Dec(15, 100)), Dec(27, 100))))

\* display * 195,000 * context_limit in exact arithmetic: the segment maps
\* simplify to (A * raw - B * limit) / limit
ExactTimesLimit ==
    CASE Segment = 1 -> BMul(N(117000), Raw)
      [] Segment = 2 -> BSub(BMul(N(195000), Raw), BMul(N(39000), context_limit))
      [] Segment = 3 -> BSub(BMul(N(260000), Raw), BMul(N(84500), context_limit))
      [] Segment = 4 ->
            LET lin == BSub(BMul(N(351000), Raw), BMul(N(161850), context_limit))
                cap == BMul(N(189150), context_limit)
            IN  IF BLe(lin, cap) THEN lin ELSE cap

Between(lo, x, hi) == BLt(N(lo), x) /\ BLt(x, N(hi))

\* C7: when scaling is applied with a limit of at least 1, the scaled total
\* is the truncation of display(raw / context_limit) * 195,000 for the
\* four-segment display map, within 1 of the value in exact arithmetic; for
\* a limit of 1,000,000 and no cached tokens input_tokens lies in the ranges
\* of the unit test
C7_Piecewise ==
    (ScalingApplied /\ context_limit # <<>>) =>
        /\ ST = AsU32(FMul(TableDisplay(FDiv(FromU32(Raw), FromU32(context_limit)), Segment),
                           FromU32(N(195000))))
        /\ BLe(BMul(ST, context_limit), BAdd(ExactTimesLimit, context_limit))
        /\ BLt(ExactTimesLimit, BMul(BAdd(ST, <<2>>), context_limit))
        /\ (context_limit = N(1000000) /\ Cached = <<>>) =>
              /\ Raw = N(500000) => Between(55000, U.input_tokens, 62000)
              /\ Raw = N(700000) => Between(90000, U.input_tokens, 105000)
              /\ Raw = N(850000) => Between(130000, U.input_tokens, 145000)
              /\ Raw = N(1000000) => Between(185000, U.input_tokens, 190001)

C7_Witness ==
    /\ ScalingApplied
    /\ context_limit = N(1000000)
    /\ Raw = N(700000)
    /\ Cached = <<>>
    /\ Segment = 2
    /\ U.input_tokens = N(97499)

\* C8: output_tokens is the raw candidates count (0 when absent),
\* cache_creation_input_tokens is Some(0), server_tool_use is None, and a
\* call that differs only in total_token_count returns the same usage
C8_Assembly ==
    /\ Called =>
          /\ U.output_tokens = UnwrapOr(usage_metadata.candidates_token_count, <<>>)
          /\ U.cache_creation_input_tokens = Some(<<>>)
          /\ U.server_tool_use = None
    /\ (/\ pc = "again"
        /\ prev[1].usage_metadata = [usage_metadata EXCEPT
              !.total_token_count = prev[1].usage_metadata.total_token_count])
          => U = prev[1].usage

C8_Witness ==
    /\ pc = "again"
    /\ scaling_enabled
    /\ BLt(N(30000), Raw)
    /\ prev[1].usage_metadata.total_token_count = Some(N(150))
    /\ usage_metadata.total_token_count = Some(U32_MAX)
    /\ prev[1].usage_metadata.prompt_token_count = usage_metadata.prompt_token_count
    /\ U = prev[1].usage
    /\ BLt(U.output_tokens, ST)

\* C9: with 0 < prompt and cached <= prompt, cache_read_input_tokens is at
\* most the scaled total, input_tokens is exactly the difference, the cache
\* part is 0 when cached is 0 or absent, and input_tokens is 0 when cached
\* equals prompt
C9_WellFormedCache ==
    (Called /\ Raw # <<>> /\ BLe(Cached, Raw)) =>
        /\ U.cache_read_input_tokens # None
        /\ BLe(CacheRead, ST)
        /\ U.input_tokens = BSub(ST, CacheRead)
        /\ Cached = <<>> => CacheRead = <<>>
        /\ Cached = Raw => U.input_tokens = <<>>

C9_Witness ==
    /\ ScalingApplied
    /\ Cached # <<>>
    /\ BLt(Cached, Raw)
    /\ CacheRead # <<>>
    /\ BLt(CacheRead, ST)
    /\ BLt(ST, Raw)
    /\ U.input_tokens = BSub(ST, CacheRead)

\* C10: for a limit returned by get_context_limit_for_model the scaled total
\* never exceeds the raw prompt count
C10_CompressionOnly ==
    (Called /\ model # None) => BLe(ST, Raw)

C10_Witness ==
    /\ ScalingApplied
    /\ model # None
    /\ context_limit = N(2097152)
    /\ BLt(ST, Raw)
    /\ BLe(context_limit, Raw)

\* the second half of C10: a caller-supplied limit of 40,000 with a prompt of
\* 30,001 tokens gives a scaled total above the prompt count
C10_SmallLimitExceeds ==
    /\ ScalingApplied
    /\ model = None
    /\ context_limit = N(40000)
    /\ Raw = N(30001)
    /\ BLt(Raw, ST)

====
